---- MODULE Spec2Model ----
(***************************************************************************)
(* Web3-wallet: the key pipeline of src/utils/walletUtils.ts.              *)
(*                                                                         *)
(* A JavaScript string is modelled as the sequence of its UTF-16 code      *)
(* units (charCodeAt), so that substring, split, trim, the XOR cipher and  *)
(* the base64 transport encoding are computed as the code computes them.   *)
(* A 32-bit integer is a pair <<hi, lo>> of 16-bit halves, so that the     *)
(* wrap-around of the fallback digest is exact.                            *)
(***************************************************************************)
EXTENDS Integers, Sequences, FiniteSets, TLC

VARIABLES
  platform,  \* how crypto.subtle.digest behaves on this page
  fn,        \* the exported function in flight ("none" before the first call)
  pc,        \* where that call stands
  arg,       \* its arguments
  loc,       \* its local variables
  kdf,       \* the frame of the deriveKey call it awaits
  ret,       \* how the last call ended, and with what
  made,      \* the last completed encryptPrivateKey call (what decrypt is fed)
  calls,     \* the library calls in flight side by side, one frame each
  form       \* the WalletForm component: its state, the store, its handlers

vars == <<platform, fn, pc, arg, loc, kdf, ret, made, calls, form>>

----------------------------------------------------------------------------
(* Bounds of the model                                                     *)

\* Date.now() is drawn from 1..MaxClock
MaxClock == 1
\* a later call reads the clock 0..MaxElapsed milliseconds after an earlier one
MaxElapsed == 1

\* account indices are drawn from 0..MaxIndex
MaxIndex == 1
\* deriveKey called on its own is given 0..MaxIterations iterations
MaxIterations == 3
\* validateMnemonic is fed phrases of 0..MaxWords words
MaxWords == 25
\* the random source offers this many distinct outcomes
MaxRandom == 2

----------------------------------------------------------------------------
(* Strings                                                                 *)

Min(a, b) == IF a < b THEN a ELSE b
Max(a, b) == IF a > b THEN a ELSE b

\* String.prototype.substring(from, to) with 0 <= from, zero-based, end exclusive
Substring(s, from, to) ==
  LET e == Min(Max(to, 0), Len(s))
      b == Min(Max(from, 0), Len(s))
  IN  SubSeq(s, Min(b, e) + 1, Max(b, e))

\* TLC hands an operator its arguments unevaluated; comparing a value with
\* itself evaluates it, which keeps the evaluation depth of a loop bounded.
Forced(v) == v = v

\* for (i = lo; i <= hi; i++) acc = Step(acc, s[i], i): the steps run in
\* order, the range being halved only to keep TLC's evaluation shallow.
RECURSIVE FoldLeft(_, _, _, _, _)
FoldLeft(Step(_, _, _), s, lo, hi, acc) ==
  IF lo > hi THEN acc
  ELSE IF lo = hi THEN Step(acc, s[lo], lo)
  ELSE IF lo + 1 = hi THEN Step(Step(acc, s[lo], lo), s[hi], hi)
  ELSE LET mid == (lo + hi) \div 2
           left == FoldLeft(Step, s, lo, mid, acc)
       IN  IF Forced(left) THEN FoldLeft(Step, s, mid + 1, hi, left) ELSE acc

\* Number.prototype.toString(radix) of an integer n >= 0, radix 10 or 16
RECURSIVE ToStringRadix(_, _)
ToStringRadix(n, radix) ==
  LET d == n % radix
      c == IF d < 10 THEN 48 + d ELSE 87 + d
  IN  IF n < radix THEN <<c>> ELSE Append(ToStringRadix(n \div radix, radix), c)

\* i.toString(), index.toString(), `${Date.now()}`
ToDecimal(n) == ToStringRadix(n, 10)

\* String.prototype.padStart(targetLength, padChar)
PadStart(s, targetLength, c) ==
  IF Len(s) >= targetLength THEN s ELSE [k \in 1..(targetLength - Len(s)) |-> c] \o s

JoinStep(acc, part, i) == acc \o part

\* Array.prototype.join('') of an array of strings
Concat(parts) == FoldLeft(JoinStep, parts, 1, Len(parts), <<>>)

\* Array.prototype.join() of an array of strings, the separator left to default
JoinCommaStep(acc, part, i) == IF i = 1 THEN part ELSE acc \o <<44>> \o part

JoinComma(parts) == FoldLeft(JoinCommaStep, parts, 1, Len(parts), <<>>)

\* Array.prototype.join(" ") of an array of strings
JoinSpaceStep(acc, part, i) == IF i = 1 THEN part ELSE acc \o <<32>> \o part

JoinSpace(parts) == FoldLeft(JoinSpaceStep, parts, 1, Len(parts), <<>>)

\* a ^ b on non-negative integers
RECURSIVE BitXor(_, _)
BitXor(a, b) ==
  IF a = 0 THEN b
  ELSE IF b = 0 THEN a
  ELSE ((a + b) % 2) + 2 * BitXor(a \div 2, b \div 2)

\* the value undefined where a string is expected (no code unit is negative)
undefined == <<-1>>

\* string concatenation's ToString of its operand
JsToString(v) == IF v = undefined THEN <<117, 110, 100, 101, 102, 105, 110, 101, 100>> ELSE v

IsHexString(s) == \A i \in 1..Len(s) : s[i] \in (48..57) \cup (97..102)

STR_0x == <<48, 120>>                                             \* "0x"
STR_ethereum == <<101, 116, 104, 101, 114, 101, 117, 109>>        \* "ethereum"
STR_solana == <<115, 111, 108, 97, 110, 97>>                      \* "solana"

----------------------------------------------------------------------------
(* secureHash                                                              *)

\* new TextEncoder().encode(input): UTF-8, for code units below the surrogates
Utf8Step(acc, c, i) ==
  acc \o (IF c < 128 THEN <<c>>
          ELSE IF c < 2048 THEN <<192 + (c \div 64), 128 + (c % 64)>>
          ELSE <<224 + (c \div 4096), 128 + ((c \div 64) % 64), 128 + (c % 64)>>)

TextEncode(input) ==
  IF \A i \in 1..Len(input) : input[i] < 128 THEN input
  ELSE FoldLeft(Utf8Step, input, 1, Len(input), <<>>)

\* The platform's crypto.subtle.digest('SHA-256', msgBuffer) is not code of
\* this repository.  It is a deterministic function from byte strings to 32
\* bytes; the stand-in below absorbs the message into three 16-bit lanes and
\* squeezes 32 bytes out of them.  Nothing here relies on its values beyond
\* determinism and well-mixedness.
DigestAbsorb(st, byte, i) ==
  LET a == (st[1] * 251 + byte + 1) % 65521
      b == (st[2] * 241 + a + i) % 65519
      c == (st[3] * 239 + b + byte * 7) % 65497
  IN  <<a, b, c>>

DigestSqueeze(st) ==
  [j \in 1..32 |->
     (((st[1] * (j + 1) + st[2] * (j * j + 3) + st[3] * (2 * j + 7) + j * 131)
        % 65521) \div 3) % 256]

PlatformDigest(msgBuffer) ==
  DigestSqueeze(FoldLeft(DigestAbsorb, msgBuffer, 1, Len(msgBuffer),
                         <<Len(msgBuffer) + 17, 4099, 8209>>))

HexDigit(d) == IF d < 10 THEN 48 + d ELSE 87 + d

\* hashArray.map(b => b.toString(16).padStart(2, '0')).join(''): two lowercase
\* hex digits per byte, the high one first
HashHex(hashArray) ==
  [k \in 1..(2 * Len(hashArray)) |->
     LET b == hashArray[(k + 1) \div 2]
     IN  HexDigit(IF k % 2 = 1 THEN b \div 16 ELSE b % 16)]

\* hash = ((hash << 5) - hash) + char; hash = hash & hash, on a 32-bit
\* integer held as <<hi, lo>>: each half is shifted and reduced by itself,
\* the low half takes the code unit, its overflow is carried into the high
\* half, and what passes bit 31 is dropped, as hash & hash drops it.
FallbackStep(hash, char, i) ==
  LET lo == ((hash[2] * 32) - hash[2]) + char
      hi == ((hash[1] * 32) - hash[1]) + (lo \div 65536)
  IN  <<hi % 65536, lo % 65536>>

\* Math.abs(hash) of a 32-bit signed integer, as an unsigned pair (2^31 for -2^31)
Abs32(w) ==
  IF w[1] < 32768 THEN w
  ELSE <<(65535 - w[1]) + (IF w[2] = 0 THEN 1 ELSE 0), (65536 - w[2]) % 65536>>

\* Number.prototype.toString(16) of an unsigned pair
ToHex32(w) ==
  IF w[1] = 0 THEN ToStringRadix(w[2], 16)
  ELSE ToStringRadix(w[1], 16) \o PadStart(ToStringRadix(w[2], 16), 4, 48)

\* the .catch branch: the pure-arithmetic digest
FallbackHash(input) ==
  PadStart(ToHex32(Abs32(FoldLeft(FallbackStep, input, 1, Len(input), <<0, 0>>))), 64, 48)

\* secureHash(input) on a page whose digest behaves as p: the digest, or the
\* TypeError of reading .digest of an undefined crypto.subtle, which is raised
\* before any promise exists and so never reaches .catch
SecureHashOn(p, input) ==
  IF p = "absent" THEN [ok |-> FALSE, val |-> <<>>]
  ELSE IF p = "primary"
       THEN [ok |-> TRUE, val |-> HashHex(PlatformDigest(TextEncode(input)))]
       ELSE [ok |-> TRUE, val |-> FallbackHash(input)]

secureHash(input) == SecureHashOn(platform, input)

Platforms == {"primary", "rejects", "absent"}

----------------------------------------------------------------------------
(* btoa, atob and split, which the storage cipher calls                    *)

B64Alphabet ==
  <<65, 66, 67, 68, 69, 70, 71, 72, 73, 74, 75, 76, 77, 78, 79, 80, 81, 82, 83,
    84, 85, 86, 87, 88, 89, 90, 97, 98, 99, 100, 101, 102, 103, 104, 105, 106,
    107, 108, 109, 110, 111, 112, 113, 114, 115, 116, 117, 118, 119, 120, 121,
    122, 48, 49, 50, 51, 52, 53, 54, 55, 56, 57, 43, 47>>

Pow(b, e) == IF e = 0 THEN 1 ELSE IF e = 1 THEN b ELSE IF e = 2 THEN b * b ELSE b * b * b

\* window.btoa(data): InvalidCharacterError on a code unit above 255, else the
\* base64 text of the bytes, '='-padded to a multiple of four
btoa(data) ==
  IF \E i \in 1..Len(data) : data[i] > 255
  THEN [ok |-> FALSE, val |-> <<>>]
  ELSE LET n == Len(data)
           byte(i) == IF i <= n THEN data[i] ELSE 0
           group(g) == byte(3 * g + 1) * 65536 + byte(3 * g + 2) * 256 + byte(3 * g + 3)
           char(k) ==
             LET g == (k - 1) \div 4
                 pos == (k - 1) % 4
             IN  IF pos >= 2 /\ 3 * g + pos > n THEN 61
                 ELSE B64Alphabet[((group(g) \div Pow(64, 3 - pos)) % 64) + 1]
       IN  [ok |-> TRUE, val |-> [k \in 1..(4 * ((n + 2) \div 3)) |-> char(k)]]

IsAsciiWhitespace(c) == c \in {9, 10, 12, 13, 32}

IsB64Char(c) == \E k \in 1..64 : B64Alphabet[k] = c

B64Value(c) == (CHOOSE k \in 1..64 : B64Alphabet[k] = c) - 1

\* a decoder that takes '=' for a character outside the alphabet
atobUnpadded(data) ==
  LET text == SelectSeq(data, LAMBDA c : ~IsAsciiWhitespace(c))
      n == Len(text)
      sextet(i) == IF i <= n THEN B64Value(text[i]) ELSE 0
      group(g) == sextet(4 * g + 1) * 262144 + sextet(4 * g + 2) * 4096
                  + sextet(4 * g + 3) * 64 + sextet(4 * g + 4)
      size == 3 * (n \div 4) + (IF n % 4 = 0 THEN 0 ELSE (n % 4) - 1)
  IN  IF n % 4 = 1 \/ \E i \in 1..n : ~IsB64Char(text[i])
      THEN [ok |-> FALSE, val |-> <<>>]
      ELSE [ok |-> TRUE,
            val |-> [k \in 1..size |->
                       (group((k - 1) \div 3) \div Pow(256, 2 - ((k - 1) % 3))) % 256]]

\* window.atob(data), the forgiving-base64 decode: ASCII whitespace is dropped,
\* one or two trailing '=' of a length that is a multiple of four are dropped,
\* a length of 1 modulo 4 or a character outside the alphabet is an
\* InvalidCharacterError, and the bits left over are discarded
atob(data) ==
  LET stripped == SelectSeq(data, LAMBDA c : ~IsAsciiWhitespace(c))
      m == Len(stripped)
      pad == IF m > 0 /\ m % 4 = 0 /\ stripped[m] = 61
             THEN (IF stripped[m - 1] = 61 THEN 2 ELSE 1)
             ELSE 0
      text == SubSeq(stripped, 1, m - pad)
      n == Len(text)
      sextet(i) == IF i <= n THEN B64Value(text[i]) ELSE 0
      group(g) == sextet(4 * g + 1) * 262144 + sextet(4 * g + 2) * 4096
                  + sextet(4 * g + 3) * 64 + sextet(4 * g + 4)
      size == 3 * (n \div 4) + (IF n % 4 = 0 THEN 0 ELSE (n % 4) - 1)
  IN  IF n % 4 = 1 \/ \E i \in 1..n : ~IsB64Char(text[i])
      THEN [ok |-> FALSE, val |-> <<>>]
      ELSE [ok |-> TRUE,
            val |-> [k \in 1..size |->
                       (group((k - 1) \div 3) \div Pow(256, 2 - ((k - 1) % 3))) % 256]]

\* the positions of the separator in s, and the k-th of them in order
\* (0 before the first, Len(s) + 1 after the last)
SeparatorsOf(s, sep) == {i \in 1..Len(s) : s[i] = sep}

NthSeparator(s, sep, k) ==
  IF k = 0 THEN 0
  ELSE IF k > Cardinality(SeparatorsOf(s, sep)) THEN Len(s) + 1
  ELSE CHOOSE i \in SeparatorsOf(s, sep) :
         Cardinality({j \in SeparatorsOf(s, sep) : j < i}) = k - 1

\* a split that cuts once, at the last separator
SplitAtLast(s, sep) ==
  LET n == Cardinality(SeparatorsOf(s, sep))
  IN  IF n = 0 THEN <<s>>
      ELSE <<SubSeq(s, 1, NthSeparator(s, sep, n) - 1),
             SubSeq(s, NthSeparator(s, sep, n) + 1, Len(s))>>

\* String.prototype.split(sep) on a one-character separator: every piece
Split(s, sep) ==
  [k \in 1..(Cardinality(SeparatorsOf(s, sep)) + 1) |->
     SubSeq(s, NthSeparator(s, sep, k - 1) + 1, NthSeparator(s, sep, k) - 1)]

\* const [a, b] = array: the element, or undefined past the end
ElementAt(array, k) == IF k <= Len(array) THEN array[k] ELSE undefined

\* for (i...) result += String.fromCharCode(data.charCodeAt(i) ^
\*                                          key.charCodeAt(i % key.length))
\* (with an empty key the index is NaN, charCodeAt gives NaN and x ^ NaN is x)
XorCipher(data, key) ==
  [i \in 1..Len(data) |->
     IF Len(key) = 0 THEN data[i]
     ELSE BitXor(data[i], key[((i - 1) % Len(key)) + 1])]

----------------------------------------------------------------------------
(* deriveKey                                                               *)

\* the default of the iterations parameter
DefaultIterations == 2048

\* let result = seed + salt; the loop counter starts at 0
deriveKeyEnter(seed, salt, iterations) ==
  [seed |-> seed, salt |-> salt, iterations |-> iterations, i |-> 0,
   result |-> seed \o JsToString(salt)]

\* a loop that numbers its rounds from one
DeriveInputFromOne(result, i) == result \o ToDecimal(i + 1)

\* the argument of the i-th secureHash call: result + i.toString()
DeriveInput(result, i) == result \o ToDecimal(i)

NoKdf == [seed |-> <<>>, salt |-> <<>>, iterations |-> 0, i |-> 0, result |-> <<>>]

Pending == [kind |-> "pending", val |-> <<>>]
Returned(v) == [kind |-> "returned", val |-> v]
Threw == [kind |-> "threw", val |-> <<>>]

\* One turn of the loop: result = await secureHash(result + i.toString()).
\* A secureHash that throws rejects deriveKey, and the exported function that
\* awaits it, none of which catches.
DeriveStep ==
  /\ pc = "deriveKey"
  /\ kdf.i < kdf.iterations
  /\ LET h == secureHash(DeriveInput(kdf.result, kdf.i))
     IN  IF h.ok
         THEN /\ kdf' = [kdf EXCEPT !.result = h.val, !.i = @ + 1]
              /\ UNCHANGED <<pc, ret>>
         ELSE /\ pc' = "done"
              /\ ret' = Threw
              /\ UNCHANGED kdf
  /\ UNCHANGED <<calls, form, platform, fn, arg, loc, made>>

----------------------------------------------------------------------------
(* encryptPrivateKey and decryptPrivateKey                                 *)

EncryptIterations == 1000
DecryptIterations == 1000
SaltPrefixLength == 16

ClockReadings == 1..MaxClock

Passwords ==
  { <<112, 119>>,                                                   \* "pw"
    <<99, 111, 114, 114, 101, 99, 116, 32, 104, 111, 114, 115, 101>> } \* "correct horse"

PrivateKeyInputs ==
  { <<>>,                                                           \* ""
    <<48, 120>> \o [i \in 1..64 |->
                      <<100, 101, 97, 100, 98, 101, 101, 102>>[((i - 1) % 8) + 1]],
                                                \* "0xdeadbeef...deadbeef"
    <<107, 233>>,                                                   \* "ké"
    <<107, 8364>> }                                                 \* "k€"

\* stored strings handed to decryptPrivateKey that no encryptPrivateKey made
EnvelopeInputs ==
  { <<89, 81, 61, 61, 46, 48, 49, 50, 51, 52, 53, 54, 55, 56, 57, 97, 98, 99,
      100, 101, 102>>,                        \* "YQ==.0123456789abcdef"
    <<89, 87, 74, 106>>,                      \* "YWJj"
    <<89, 87, 37, 106, 46, 48, 49, 50, 51, 52, 53, 54, 55, 56, 57, 97, 98, 99,
      100, 101, 102>>,                        \* "YW%j.0123456789abcdef"
    <<89, 87, 74, 106, 90, 46, 48, 49, 50, 51, 52, 53, 54, 55, 56, 57, 97, 98,
      99, 100, 101, 102>>,                    \* "YWJjZ.0123456789abcdef"
    <<89, 87, 74, 106, 46, 97, 97, 97, 97, 46, 98, 98, 98, 98>>,
                                              \* "YWJj.aaaa.bbbb"
    <<>> }                                    \* ""

NoEnvelope ==
  [ok |-> FALSE, privateKey |-> <<>>, password |-> <<>>, kdfSalt |-> <<>>,
   encryptionKey |-> <<>>, envelope |-> <<>>]

\* encryptPrivateKey(privateKey, password) up to its first await:
\* const salt = await secureHash(Date.now().toString())
EncryptCall ==
  /\ fn = "none"
  /\ \E privateKey \in PrivateKeyInputs, password \in Passwords, now \in ClockReadings :
       LET h == secureHash(ToDecimal(now))
       IN  /\ fn' = "encryptPrivateKey"
           /\ arg' = [privateKey |-> privateKey, password |-> password, now |-> now]
           /\ IF h.ok
              THEN /\ pc' = "salt"
                   /\ loc' = [salt |-> h.val]
                   /\ ret' = Pending
              ELSE /\ pc' = "done"
                   /\ loc' = [salt |-> <<>>]
                   /\ ret' = Threw
  /\ UNCHANGED <<calls, form, platform, kdf, made>>

\* const encryptionKey = await deriveKey(password, salt, 1000)
EncryptDerive ==
  /\ fn = "encryptPrivateKey"
  /\ pc = "salt"
  /\ kdf' = deriveKeyEnter(arg.password, loc.salt, EncryptIterations)
  /\ pc' = "deriveKey"
  /\ UNCHANGED <<calls, form, platform, fn, arg, loc, ret, made>>

\* the salt written into the envelope
StoredSalt(salt) == Substring(salt, 0, SaltPrefixLength)

\* deriveKey has returned: the XOR loop and
\* return btoa(result) + '.' + salt.substring(0, 16)
EncryptFinish ==
  /\ fn = "encryptPrivateKey"
  /\ pc = "deriveKey"
  /\ kdf.i >= kdf.iterations
  /\ LET encryptionKey == kdf.result
         result == XorCipher(arg.privateKey, encryptionKey)
         encoded == btoa(result)
         envelope == encoded.val \o <<46>> \o StoredSalt(loc.salt)
     IN  IF encoded.ok
         THEN /\ ret' = Returned(envelope)
              /\ made' = [ok |-> TRUE, privateKey |-> arg.privateKey,
                          password |-> arg.password, kdfSalt |-> kdf.salt,
                          encryptionKey |-> encryptionKey, envelope |-> envelope]
         ELSE /\ ret' = Threw
              /\ UNCHANGED made
  /\ pc' = "done"
  /\ UNCHANGED <<calls, form, platform, fn, arg, loc, kdf>>

\* decryptPrivateKey(encryptedKey, password) up to its first await:
\* const [encrypted, salt] = encryptedKey.split('.') and the deriveKey call.
\* It is given what encryptPrivateKey last returned, or a stored string.
DecryptCall ==
  /\ \/ fn = "none"
     \/ fn = "encryptPrivateKey" /\ pc = "done" /\ ret.kind = "returned"
  /\ \E password \in Passwords :
     \E encryptedKey \in (IF fn = "none" THEN EnvelopeInputs ELSE {ret.val}) :
       LET parts == Split(encryptedKey, 46)
           encrypted == ElementAt(parts, 1)
           salt == ElementAt(parts, 2)
       IN  /\ fn' = "decryptPrivateKey"
           /\ arg' = [encryptedKey |-> encryptedKey, password |-> password]
           /\ loc' = [encrypted |-> encrypted, salt |-> salt]
           /\ kdf' = deriveKeyEnter(password, salt, DecryptIterations)
           /\ pc' = "deriveKey"
           /\ ret' = Pending
  /\ UNCHANGED <<calls, form, platform, made>>

\* deriveKey has returned: const encryptedData = atob(encrypted), the XOR loop
DecryptFinish ==
  /\ fn = "decryptPrivateKey"
  /\ pc = "deriveKey"
  /\ kdf.i >= kdf.iterations
  /\ LET encryptionKey == kdf.result
         encryptedData == atob(loc.encrypted)
     IN  ret' = IF encryptedData.ok
                THEN Returned(XorCipher(encryptedData.val, encryptionKey))
                ELSE Threw
  /\ pc' = "done"
  /\ UNCHANGED <<calls, form, platform, fn, arg, loc, kdf, made>>

InitCipher ==
  /\ platform \in Platforms
  /\ fn = "none"
  /\ pc = "idle"
  /\ arg = <<>>
  /\ loc = <<>>
  /\ kdf = NoKdf
  /\ ret = Pending
  /\ made = NoEnvelope
  /\ calls = <<>>
  /\ form = <<>>

NextCipher ==
  \/ EncryptCall
  \/ EncryptDerive
  \/ EncryptFinish
  \/ DecryptCall
  \/ DecryptFinish
  \/ DeriveStep

SpecCipher == InitCipher /\ [][NextCipher]_vars

----------------------------------------------------------------------------
(* The storage cipher's contract                                           *)

\* decryptPrivateKey has finished on the envelope encryptPrivateKey last made
DecryptedOwnEnvelope ==
  /\ fn = "decryptPrivateKey"
  /\ pc = "done"
  /\ made.ok
  /\ arg.encryptedKey = made.envelope

Dots(s) == {i \in 1..Len(s) : s[i] = 46}
FirstDot(s) == CHOOSE i \in Dots(s) : \A j \in Dots(s) : i <= j
LastDot(s) == CHOOSE i \in Dots(s) : \A j \in Dots(s) : j <= i

\* C1: decryptPrivateKey(encryptPrivateKey(x, p), p) returns exactly x, for
\* every x that encryptPrivateKey turned into an envelope, every password p
\* and every clock reading.
C1_RoundTrip ==
  (DecryptedOwnEnvelope /\ arg.password = made.password)
    => (ret.kind = "returned" /\ ret.val = made.privateKey)

\* C2: the salt encryptPrivateKey writes after the '.' is the salt it gave
\* deriveKey, and the key stream decryptPrivateKey derives from the password
\* and the stored salt is the key stream encryptPrivateKey used.
C2_StoredSaltIsDerivationSalt ==
  /\ (fn = "encryptPrivateKey" /\ pc = "done" /\ ret.kind = "returned")
       => SubSeq(ret.val, LastDot(ret.val) + 1, Len(ret.val)) = kdf.salt
  /\ (DecryptedOwnEnvelope /\ arg.password = made.password)
       => kdf.result = made.encryptionKey

Malformed(envelope) ==
  \/ Dots(envelope) = {}
  \/ ~atob(SubSeq(envelope, 1, LastDot(envelope) - 1)).ok

\* C4: decryptPrivateKey on a malformed envelope ends in an error, and on a
\* well-formed one, whatever the password, in a normal return (where the
\* digest is available to it).
C4_MalformedEnvelopeRaises ==
  (fn = "decryptPrivateKey" /\ pc = "done")
    => /\ Malformed(arg.encryptedKey) => ret.kind = "threw"
       /\ (~Malformed(arg.encryptedKey) /\ platform # "absent") => ret.kind = "returned"

\* C5 as stated: the ciphertext part is what precedes the last '.', the salt
\* what follows it.
C5_SplitOnLastDot ==
  (fn = "decryptPrivateKey" /\ Dots(arg.encryptedKey) # {})
    => /\ loc.encrypted = SubSeq(arg.encryptedKey, 1, LastDot(arg.encryptedKey) - 1)
       /\ loc.salt = SubSeq(arg.encryptedKey, LastDot(arg.encryptedKey) + 1,
                            Len(arg.encryptedKey))

\* C5 as amended: the ciphertext part is what precedes the first '.' (the
\* whole string when there is none) and the salt is what lies between the
\* first '.' and the second (or the end), undefined when there is no '.';
\* with exactly one '.' this is the split on the last '.'.
C5_SplitOnEveryDot ==
  fn = "decryptPrivateKey"
    => LET e == arg.encryptedKey
           rest == SubSeq(e, FirstDot(e) + 1, Len(e))
       IN  IF Dots(e) = {}
           THEN loc.encrypted = e /\ loc.salt = undefined
           ELSE /\ loc.encrypted = SubSeq(e, 1, FirstDot(e) - 1)
                /\ loc.salt = IF Dots(rest) = {} THEN rest
                              ELSE SubSeq(rest, 1, FirstDot(rest) - 1)
                /\ Cardinality(Dots(e)) = 1
                     => /\ loc.encrypted = SubSeq(e, 1, LastDot(e) - 1)
                        /\ loc.salt = SubSeq(e, LastDot(e) + 1, Len(e))

C5_Witness ==
  /\ fn = "decryptPrivateKey"
  /\ Cardinality(Dots(arg.encryptedKey)) = 2
  /\ loc.salt = <<97, 97, 97, 97>>

----------------------------------------------------------------------------
(* secureHash and deriveKey called on their own                            *)

HashInputs ==
  { <<>>,                                     \* ""
    <<97, 98, 99>>,                           \* "abc"
    <<97, 8364, 98>>,                         \* "a€b"
    <<109, 47, 52, 52, 39, 47, 54, 48, 39>> } \* "m/44'/60'"

KdfSeeds == { <<>>, <<112, 119>>, <<233, 8364>> }        \* "", "pw", "é€"
KdfSalts == { <<>>, <<115>>, <<48, 49, 50, 51, 52, 53, 54, 55, 56, 57, 97, 98,
                               99, 100, 101, 102>> }     \* "", "s", "0123456789abcdef"

\* secureHash(input), whose promise the caller awaits
HashCall ==
  /\ fn = "none"
  /\ \E input \in HashInputs :
       LET h == secureHash(input)
       IN  /\ fn' = "secureHash"
           /\ arg' = [input |-> input]
           /\ pc' = "done"
           /\ ret' = IF h.ok THEN Returned(h.val) ELSE Threw
  /\ UNCHANGED <<calls, form, platform, loc, kdf, made>>

\* deriveKey(seed, salt, iterations): let result = seed + salt
DeriveCall ==
  /\ fn = "none"
  /\ \E seed \in KdfSeeds, salt \in KdfSalts, iterations \in 0..MaxIterations :
       /\ fn' = "deriveKey"
       /\ arg' = [seed |-> seed, salt |-> salt, iterations |-> iterations]
       /\ kdf' = deriveKeyEnter(seed, salt, iterations)
       /\ pc' = "deriveKey"
  /\ UNCHANGED <<calls, form, platform, loc, ret, made>>

\* the loop is over: return result
DeriveReturn ==
  /\ fn = "deriveKey"
  /\ pc = "deriveKey"
  /\ kdf.i >= kdf.iterations
  /\ pc' = "done"
  /\ ret' = Returned(kdf.result)
  /\ UNCHANGED <<calls, form, platform, fn, arg, loc, kdf, made>>

InitKdf == InitCipher

NextKdf ==
  \/ HashCall
  \/ DeriveCall
  \/ DeriveStep
  \/ DeriveReturn

SpecKdf == InitKdf /\ [][NextKdf]_vars

\* C6: secureHash never fails: every call yields a digest, and where the
\* platform digest rejects or the platform crypto API is absent, that digest
\* is the fallback digest of the input.
C6_HashNeverFails ==
  (fn = "secureHash" /\ pc = "done")
    => /\ ret.kind = "returned"
       /\ platform # "primary" => ret.val = FallbackHash(arg.input)

\* state := hash(state + decimal(i)) for i = from, ..., n - 1
RECURSIVE IteratedHash(_, _, _)
IteratedHash(state, from, n) ==
  IF from >= n THEN state
  ELSE IteratedHash(SecureHashOn(platform, state \o ToDecimal(from)).val, from + 1, n)

\* C7: deriveKey(seed, salt, n) returns the state reached from seed + salt by
\* state := hash(state + decimal(i)) for i = 0, ..., n - 1 in that order, each
\* round taking the whole output of the one before; for n = 0 that is
\* seed + salt itself.
C7_DeriveKeyIsIteratedHash ==
  (fn = "deriveKey" /\ pc = "done")
    => /\ (platform # "absent" \/ arg.iterations = 0) => ret.kind = "returned"
       /\ ret.kind = "returned"
            => /\ ret.val = IteratedHash(arg.seed \o arg.salt, 0, arg.iterations)
               /\ arg.iterations = 0 => ret.val = arg.seed \o arg.salt

C7_Witness ==
  /\ fn = "deriveKey"
  /\ pc = "done"
  /\ ret.kind = "returned"
  /\ arg.iterations = MaxIterations
  /\ platform = "primary"
  /\ arg.seed = <<233, 8364>>
  /\ Len(arg.salt) = 16
  /\ Len(ret.val) = 64

----------------------------------------------------------------------------
(* generateMnemonic and validateMnemonic                                   *)

\* wordList of the Math.random generator: abandon .. anger (70 words)
legacyWordList ==
  << <<97, 98, 97, 110, 100, 111, 110>>,
     <<97, 98, 105, 108, 105, 116, 121>>,
     <<97, 98, 108, 101>>,
     <<97, 98, 111, 117, 116>>,
     <<97, 98, 111, 118, 101>>,
     <<97, 98, 115, 101, 110, 116>>,
     <<97, 98, 115, 111, 114, 98>>,
     <<97, 98, 115, 116, 114, 97, 99, 116>>,
     <<97, 98, 115, 117, 114, 100>>,
     <<97, 98, 117, 115, 101>>,
     <<97, 99, 99, 101, 115, 115>>,
     <<97, 99, 99, 105, 100, 101, 110, 116>>,
     <<97, 99, 99, 111, 117, 110, 116>>,
     <<97, 99, 99, 117, 115, 101>>,
     <<97, 99, 104, 105, 101, 118, 101>>,
     <<97, 99, 105, 100>>,
     <<97, 99, 111, 117, 115, 116, 105, 99>>,
     <<97, 99, 113, 117, 105, 114, 101>>,
     <<97, 99, 114, 111, 115, 115>>,
     <<97, 99, 116>>,
     <<97, 99, 116, 105, 111, 110>>,
     <<97, 99, 116, 111, 114>>,
     <<97, 99, 116, 114, 101, 115, 115>>,
     <<97, 99, 116, 117, 97, 108>>,
     <<97, 100, 97, 112, 116>>,
     <<97, 100, 100>>,
     <<97, 100, 100, 105, 99, 116>>,
     <<97, 100, 100, 114, 101, 115, 115>>,
     <<97, 100, 106, 117, 115, 116>>,
     <<97, 100, 109, 105, 116>>,
     <<97, 100, 117, 108, 116>>,
     <<97, 100, 118, 97, 110, 99, 101>>,
     <<97, 100, 118, 105, 99, 101>>,
     <<97, 101, 114, 111, 98, 105, 99>>,
     <<97, 102, 102, 97, 105, 114>>,
     <<97, 102, 102, 111, 114, 100>>,
     <<97, 102, 114, 97, 105, 100>>,
     <<97, 103, 97, 105, 110>>,
     <<97, 103, 101>>,
     <<97, 103, 101, 110, 116>>,
     <<97, 103, 114, 101, 101>>,
     <<97, 104, 101, 97, 100>>,
     <<97, 105, 109>>,
     <<97, 105, 114>>,
     <<97, 105, 114, 112, 111, 114, 116>>,
     <<97, 105, 115, 108, 101>>,
     <<97, 108, 97, 114, 109>>,
     <<97, 108, 98, 117, 109>>,
     <<97, 108, 99, 111, 104, 111, 108>>,
     <<97, 108, 101, 114, 116>>,
     <<97, 108, 105, 101, 110>>,
     <<97, 108, 108>>,
     <<97, 108, 108, 101, 121>>,
     <<97, 108, 108, 111, 119>>,
     <<97, 108, 109, 111, 115, 116>>,
     <<97, 108, 111, 110, 101>>,
     <<97, 108, 112, 104, 97>>,
     <<97, 108, 114, 101, 97, 100, 121>>,
     <<97, 108, 115, 111>>,
     <<97, 108, 116, 101, 114>>,
     <<97, 108, 119, 97, 121, 115>>,
     <<97, 109, 97, 116, 101, 117, 114>>,
     <<97, 109, 97, 122, 105, 110, 103>>,
     <<97, 109, 111, 110, 103>>,
     <<97, 109, 111, 117, 110, 116>>,
     <<97, 109, 117, 115, 101, 100>>,
     <<97, 110, 97, 108, 121, 115, 116>>,
     <<97, 110, 99, 104, 111, 114>>,
     <<97, 110, 99, 105, 101, 110, 116>>,
     <<97, 110, 103, 101, 114>> >>

\* wordList of the crypto.getRandomValues generator: abandon .. belt (166 words)
wordList ==
  << <<97, 98, 97, 110, 100, 111, 110>>,
     <<97, 98, 105, 108, 105, 116, 121>>,
     <<97, 98, 108, 101>>,
     <<97, 98, 111, 117, 116>>,
     <<97, 98, 111, 118, 101>>,
     <<97, 98, 115, 101, 110, 116>>,
     <<97, 98, 115, 111, 114, 98>>,
     <<97, 98, 115, 116, 114, 97, 99, 116>>,
     <<97, 98, 115, 117, 114, 100>>,
     <<97, 98, 117, 115, 101>>,
     <<97, 99, 99, 101, 115, 115>>,
     <<97, 99, 99, 105, 100, 101, 110, 116>>,
     <<97, 99, 99, 111, 117, 110, 116>>,
     <<97, 99, 99, 117, 115, 101>>,
     <<97, 99, 104, 105, 101, 118, 101>>,
     <<97, 99, 105, 100>>,
     <<97, 99, 111, 117, 115, 116, 105, 99>>,
     <<97, 99, 113, 117, 105, 114, 101>>,
     <<97, 99, 114, 111, 115, 115>>,
     <<97, 99, 116>>,
     <<97, 99, 116, 105, 111, 110>>,
     <<97, 99, 116, 111, 114>>,
     <<97, 99, 116, 114, 101, 115, 115>>,
     <<97, 99, 116, 117, 97, 108>>,
     <<97, 100, 97, 112, 116>>,
     <<97, 100, 100>>,
     <<97, 100, 100, 105, 99, 116>>,
     <<97, 100, 100, 114, 101, 115, 115>>,
     <<97, 100, 106, 117, 115, 116>>,
     <<97, 100, 109, 105, 116>>,
     <<97, 100, 117, 108, 116>>,
     <<97, 100, 118, 97, 110, 99, 101>>,
     <<97, 100, 118, 105, 99, 101>>,
     <<97, 101, 114, 111, 98, 105, 99>>,
     <<97, 102, 102, 97, 105, 114>>,
     <<97, 102, 102, 111, 114, 100>>,
     <<97, 102, 114, 97, 105, 100>>,
     <<97, 103, 97, 105, 110>>,
     <<97, 103, 101>>,
     <<97, 103, 101, 110, 116>>,
     <<97, 103, 114, 101, 101>>,
     <<97, 104, 101, 97, 100>>,
     <<97, 105, 109>>,
     <<97, 105, 114>>,
     <<97, 105, 114, 112, 111, 114, 116>>,
     <<97, 105, 115, 108, 101>>,
     <<97, 108, 97, 114, 109>>,
     <<97, 108, 98, 117, 109>>,
     <<97, 108, 99, 111, 104, 111, 108>>,
     <<97, 108, 101, 114, 116>>,
     <<97, 108, 105, 101, 110>>,
     <<97, 108, 108>>,
     <<97, 108, 108, 101, 121>>,
     <<97, 108, 108, 111, 119>>,
     <<97, 108, 109, 111, 115, 116>>,
     <<97, 108, 111, 110, 101>>,
     <<97, 108, 112, 104, 97>>,
     <<97, 108, 114, 101, 97, 100, 121>>,
     <<97, 108, 115, 111>>,
     <<97, 108, 116, 101, 114>>,
     <<97, 108, 119, 97, 121, 115>>,
     <<97, 109, 97, 116, 101, 117, 114>>,
     <<97, 109, 97, 122, 105, 110, 103>>,
     <<97, 109, 111, 110, 103>>,
     <<97, 109, 111, 117, 110, 116>>,
     <<97, 109, 117, 115, 101, 100>>,
     <<97, 110, 97, 108, 121, 115, 116>>,
     <<97, 110, 99, 104, 111, 114>>,
     <<97, 110, 99, 105, 101, 110, 116>>,
     <<97, 110, 103, 101, 114>>,
     <<97, 110, 103, 108, 101>>,
     <<97, 110, 103, 114, 121>>,
     <<97, 110, 105, 109, 97, 108>>,
     <<97, 110, 107, 108, 101>>,
     <<97, 110, 110, 111, 117, 110, 99, 101>>,
     <<97, 110, 110, 117, 97, 108>>,
     <<97, 110, 111, 116, 104, 101, 114>>,
     <<97, 110, 115, 119, 101, 114>>,
     <<97, 110, 116, 101, 110, 110, 97>>,
     <<97, 110, 116, 105, 113, 117, 101>>,
     <<97, 110, 120, 105, 101, 116, 121>>,
     <<97, 110, 121>>,
     <<97, 112, 97, 114, 116>>,
     <<97, 112, 111, 108, 111, 103, 121>>,
     <<97, 112, 112, 101, 97, 114>>,
     <<97, 112, 112, 108, 101>>,
     <<97, 112, 112, 114, 111, 118, 101>>,
     <<97, 112, 114, 105, 108>>,
     <<97, 114, 99, 104>>,
     <<97, 114, 99, 116, 105, 99>>,
     <<97, 114, 101, 97>>,
     <<97, 114, 101, 110, 97>>,
     <<97, 114, 103, 117, 101>>,
     <<97, 114, 109>>,
     <<97, 114, 109, 101, 100>>,
     <<97, 114, 109, 111, 114>>,
     <<97, 114, 109, 121>>,
     <<97, 114, 111, 117, 110, 100>>,
     <<97, 114, 114, 97, 110, 103, 101>>,
     <<97, 114, 114, 101, 115, 116>>,
     <<97, 114, 114, 105, 118, 101>>,
     <<97, 114, 114, 111, 119>>,
     <<97, 114, 116>>,
     <<97, 114, 116, 101, 102, 97, 99, 116>>,
     <<97, 114, 116, 105, 115, 116>>,
     <<97, 114, 116, 119, 111, 114, 107>>,
     <<97, 115, 107>>,
     <<97, 115, 112, 101, 99, 116>>,
     <<97, 115, 115, 97, 117, 108, 116>>,
     <<97, 115, 115, 101, 116>>,
     <<97, 115, 115, 105, 115, 116>>,
     <<97, 115, 115, 117, 109, 101>>,
     <<97, 115, 116, 104, 109, 97>>,
     <<97, 116, 104, 108, 101, 116, 101>>,
     <<97, 116, 111, 109>>,
     <<97, 116, 116, 97, 99, 107>>,
     <<97, 116, 116, 101, 110, 100>>,
     <<97, 116, 116, 105, 116, 117, 100, 101>>,
     <<97, 116, 116, 114, 97, 99, 116>>,
     <<97, 117, 99, 116, 105, 111, 110>>,
     <<97, 117, 100, 105, 116>>,
     <<97, 117, 103, 117, 115, 116>>,
     <<97, 117, 110, 116>>,
     <<97, 117, 116, 104, 111, 114>>,
     <<97, 117, 116, 111>>,
     <<97, 117, 116, 117, 109, 110>>,
     <<97, 118, 101, 114, 97, 103, 101>>,
     <<97, 118, 111, 99, 97, 100, 111>>,
     <<97, 118, 111, 105, 100>>,
     <<97, 119, 97, 107, 101>>,
     <<97, 119, 97, 114, 101>>,
     <<97, 119, 97, 121>>,
     <<97, 119, 101, 115, 111, 109, 101>>,
     <<97, 119, 102, 117, 108>>,
     <<97, 119, 107, 119, 97, 114, 100>>,
     <<97, 120, 105, 115>>,
     <<98, 97, 99, 111, 110>>,
     <<98, 97, 100, 103, 101>>,
     <<98, 97, 103>>,
     <<98, 97, 108, 97, 110, 99, 101>>,
     <<98, 97, 108, 99, 111, 110, 121>>,
     <<98, 97, 108, 108>>,
     <<98, 97, 109, 98, 111, 111>>,
     <<98, 97, 110, 97, 110, 97>>,
     <<98, 97, 110, 110, 101, 114>>,
     <<98, 97, 114>>,
     <<98, 97, 114, 101, 108, 121>>,
     <<98, 97, 114, 103, 97, 105, 110>>,
     <<98, 97, 114, 114, 101, 108>>,
     <<98, 97, 115, 101>>,
     <<98, 97, 115, 105, 99>>,
     <<98, 97, 115, 107, 101, 116>>,
     <<98, 97, 116, 116, 108, 101>>,
     <<98, 101, 97, 99, 104>>,
     <<98, 101, 97, 110>>,
     <<98, 101, 97, 117, 116, 121>>,
     <<98, 101, 99, 97, 117, 115, 101>>,
     <<98, 101, 99, 111, 109, 101>>,
     <<98, 101, 101, 102>>,
     <<98, 101, 102, 111, 114, 101>>,
     <<98, 101, 103, 105, 110>>,
     <<98, 101, 104, 97, 118, 101>>,
     <<98, 101, 104, 105, 110, 100>>,
     <<98, 101, 108, 105, 101, 118, 101>>,
     <<98, 101, 108, 111, 119>>,
     <<98, 101, 108, 116>> >>


WordsPerMnemonic == 12

\* WhiteSpace and LineTerminator: what trim() strips and what \s matches
IsWhiteSpace(c) ==
  \/ c = 32
  \/ (c >= 9 /\ c <= 13)
  \/ (c >= 8192 /\ c <= 8202)
  \/ c \in {160, 5760, 8232, 8233, 8239, 8287, 12288, 65279}

\* a trim that strips nothing
TrimNothing(s) == s

\* String.prototype.trim()
Trim(s) ==
  LET kept == SelectSeq([i \in 1..Len(s) |-> i], LAMBDA i : ~IsWhiteSpace(s[i]))
  IN  IF kept = <<>> THEN <<>> ELSE SubSeq(s, kept[1], kept[Len(kept)])

\* String.prototype.split(/\s+/): the pieces between the matches of \s+, the
\* empty piece before a leading match and after a trailing one included
SplitWhiteSpace(s) ==
  LET positions == [i \in 1..Len(s) |-> i]
      first == SelectSeq(positions,
                         LAMBDA i : IsWhiteSpace(s[i]) /\ (i = 1 \/ ~IsWhiteSpace(s[i - 1])))
      last == SelectSeq(positions,
                        LAMBDA i : IsWhiteSpace(s[i])
                                     /\ (i = Len(s) \/ ~IsWhiteSpace(s[i + 1])))
  IN  [k \in 1..(Len(first) + 1) |->
         SubSeq(s, IF k = 1 THEN 1 ELSE last[k - 1] + 1,
                   IF k = Len(first) + 1 THEN Len(s) ELSE first[k] - 1)]

\* a check that lets every phrase through
AcceptAnything(mnemonic) == TRUE

\* const words = mnemonic.trim().split(/\s+/);
\* return words.length === 12 || words.length === 24
validateMnemonic(mnemonic) ==
  LET words == SplitWhiteSpace(Trim(mnemonic))
  IN  Len(words) = 12 \/ Len(words) = 24

\* Math.random() is one of MathRandomSteps equally spaced values in [0, 1)
MathRandomSteps == 65536

\* Math.floor(Math.random() * wordList.length), Math.random() = u / MathRandomSteps
LegacyRandomIndex(u, length) == (u * length) \div MathRandomSteps

\* buffer[0] % max, buffer[0] an unsigned 32-bit value <<high half, low half>>
getRandomInt(buffer0, max) ==
  (((buffer0[1] % max) * (65536 % max)) + (buffer0[2] % max)) % max

\* what the random source may deliver: its least and greatest value and
\* MaxRandom values between
MathRandomOutcomes == {0, MathRandomSteps - 1} \cup {(k * 40503) % MathRandomSteps : k \in 1..MaxRandom}
Uint32Outcomes ==
  {<<0, 0>>, <<65535, 65535>>}
    \cup {<<(k * 40503) % 65536, (k * 30011) % 65536>> : k \in 1..MaxRandom}

\* the twelve draws of one call: one outcome up to some draw, another after it
DrawsFrom(outcomes) ==
  {[i \in 1..WordsPerMnemonic |-> IF i <= j THEN a ELSE b] :
     a \in outcomes, b \in outcomes, j \in 0..WordsPerMnemonic}

\* the Math.random generator: twelve pushes, then mnemonic.join(" ")
LegacyGenerateMnemonic ==
  /\ fn = "none"
  /\ \E draws \in DrawsFrom(MathRandomOutcomes) :
       /\ fn' = "generateMnemonic"
       /\ arg' = [wordList |-> "legacy"]
       /\ loc' = [randomWords |->
                    [i \in 1..WordsPerMnemonic |->
                       legacyWordList[LegacyRandomIndex(draws[i], Len(legacyWordList)) + 1]]]
       /\ ret' = Returned(JoinSpace(loc'.randomWords))
       /\ pc' = "done"
  /\ UNCHANGED <<calls, form, platform, kdf, made>>

\* the crypto.getRandomValues generator: Array(12).fill(0).map(...).join(" ")
GenerateMnemonic ==
  /\ fn = "none"
  /\ \E draws \in DrawsFrom(Uint32Outcomes) :
       /\ fn' = "generateMnemonic"
       /\ arg' = [wordList |-> "current"]
       /\ loc' = [randomWords |->
                    [i \in 1..WordsPerMnemonic |->
                       wordList[getRandomInt(draws[i], Len(wordList)) + 1]]]
       /\ ret' = Returned(JoinSpace(loc'.randomWords))
       /\ pc' = "done"
  /\ UNCHANGED <<calls, form, platform, kdf, made>>

\* phrases a user may type: n words, in or out of the word list, with
\* whitespace between, before and after them
PhraseSeparators == { <<32>>, <<9>>, <<32, 32>>, <<32, 10, 9>> }
PhraseMargins == { <<>>, <<32>>, <<9, 32>> }
PhraseWord(k, listed) == IF listed THEN wordList[k] ELSE <<122, 48 + (k % 10)>>

Phrase(n, listed, sep, lead, trail) ==
  LET piece(k) == IF k = 1 THEN PhraseWord(k, listed) ELSE sep \o PhraseWord(k, listed)
      RECURSIVE build(_, _)
      build(lo, hi) ==
        IF lo > hi THEN <<>>
        ELSE IF lo = hi THEN piece(lo)
        ELSE build(lo, (lo + hi) \div 2) \o build(((lo + hi) \div 2) + 1, hi)
  IN  lead \o build(1, n) \o trail

PhraseInputs ==
  { Phrase(n, listed, sep, lead, trail) :
      n \in 0..MaxWords, listed \in BOOLEAN, sep \in PhraseSeparators,
      lead \in PhraseMargins, trail \in PhraseMargins }

\* validateMnemonic(mnemonic), on a typed phrase or on what generateMnemonic
\* has just returned
ValidateMnemonic ==
  /\ fn \in {"none", "generateMnemonic"}
  /\ fn = "generateMnemonic" => pc = "done"
  /\ \E mnemonic \in (IF fn = "none" THEN PhraseInputs ELSE {ret.val}) :
       /\ arg' = [mnemonic |-> mnemonic, generated |-> fn = "generateMnemonic"]
       /\ loc' = [words |-> SplitWhiteSpace(Trim(mnemonic))]
       /\ ret' = Returned(validateMnemonic(mnemonic))
  /\ fn' = "validateMnemonic"
  /\ pc' = "done"
  /\ UNCHANGED <<calls, form, platform, kdf, made>>

\* the mnemonic functions read nothing of the platform's digest
InitMnemonic == InitCipher /\ platform = "primary"

NextMnemonic ==
  \/ LegacyGenerateMnemonic
  \/ GenerateMnemonic
  \/ ValidateMnemonic

SpecMnemonic == InitMnemonic /\ [][NextMnemonic]_vars

\* the words of s: one starts at every character that is no whitespace and
\* follows whitespace or nothing
WordCount(s) ==
  Cardinality({i \in 1..Len(s) :
                 ~IsWhiteSpace(s[i]) /\ (i = 1 \/ IsWhiteSpace(s[i - 1]))})

\* C8: validateMnemonic(s) is true exactly when s, trimmed and split on runs
\* of whitespace, has 12 or 24 words; it is false for 0, 1, 11, 13, 23 and 25
\* words, and words outside the word list count like any other.
C8_ValidateCountsWords ==
  fn = "validateMnemonic"
    => /\ ret.val = (WordCount(arg.mnemonic) \in {12, 24})
       /\ WordCount(arg.mnemonic) \in {0, 1, 11, 13, 23, 25} => ret.val = FALSE
       /\ WordCount(arg.mnemonic) > 0
            => /\ Len(loc.words) = WordCount(arg.mnemonic)
               /\ \A k \in 1..Len(loc.words) :
                    /\ loc.words[k] # <<>>
                    /\ \A i \in 1..Len(loc.words[k]) : ~IsWhiteSpace(loc.words[k][i])

C8_Witness ==
  /\ fn = "validateMnemonic"
  /\ ~arg.generated
  /\ ret.val = TRUE
  /\ WordCount(arg.mnemonic) = 24
  /\ arg.mnemonic[1] = 9
  /\ arg.mnemonic[Len(arg.mnemonic)] = 32
  /\ loc.words[24] = <<122, 52>>

Members(list) == {list[k] : k \in 1..Len(list)}

\* C9: whatever the random source delivers, generateMnemonic returns 12
\* words of its word list joined by single spaces, with no space before or
\* after, and validateMnemonic accepts what it returned.
C9_GeneratedMnemonicIsValid ==
  /\ (fn = "generateMnemonic" /\ pc = "done")
       => LET words == Split(ret.val, 32)
              listed == Members(IF arg.wordList = "legacy" THEN legacyWordList
                                ELSE wordList)
          IN  /\ ret.kind = "returned"
              /\ Cardinality({i \in 1..Len(ret.val) : ret.val[i] = 32}) = 11
              /\ Len(words) = 12
              /\ \A k \in 1..Len(words) : words[k] \in listed
  /\ (fn = "validateMnemonic" /\ arg.generated) => ret.val = TRUE

C9_Witness ==
  /\ fn = "validateMnemonic"
  /\ arg.generated
  /\ ret.val = TRUE
  /\ loc.words[1] # loc.words[12]
  /\ loc.words[12] = wordList[Len(wordList)]

----------------------------------------------------------------------------
(* generateKeyPair                                                         *)

Chains == {STR_ethereum, STR_solana}

\* a path whose coin types are exchanged
DerivationPathSwapped(chain, index) ==
  <<109, 47, 52, 52, 39, 47>> \o (IF chain = STR_ethereum THEN <<53, 48, 49>> ELSE <<54, 48>>)
    \o <<39, 47>> \o ToDecimal(index) \o <<39, 47, 48, 47, 48>>

\* `m/44'/${chain === "ethereum" ? "60" : "501"}'/${index}'/0/0`
DerivationPath(chain, index) ==
  <<109, 47, 52, 52, 39, 47>> \o (IF chain = STR_ethereum THEN <<54, 48>> ELSE <<53, 48, 49>>)
    \o <<39, 47>> \o ToDecimal(index) \o <<39, 47, 48, 47, 48>>

\* a salt that leaves the clock out
WalletSaltWithoutClock(chain, now) == chain \o <<95, 119, 97, 108, 108, 101, 116, 95>>

\* `${chain}_wallet_${Date.now()}`
WalletSalt(chain, now) == chain \o <<95, 119, 97, 108, 108, 101, 116, 95>> \o ToDecimal(now)

\* the first 40 characters of the digest behind "0x"
EthereumAddressFromHead(ethAddressBase) == STR_0x \o Substring(ethAddressBase, 0, 40)

\* "0x" + ethAddressBase.substring(24, 64)
EthereumAddress(ethAddressBase) == STR_0x \o Substring(ethAddressBase, 24, 64)

\* the chunks joined by spaces
SolanaAddressSpaced(pubKeyBase) ==
  JoinSpace([k \in 1..8 |-> Substring(pubKeyBase, 4 * (k - 1), 4 * k)])

\* for (i = 0; i < 32; i += 4) chunks.push(pubKeyBase.substring(i, i + 4));
\* chunks.join('')
SolanaAddress(pubKeyBase) ==
  Concat([k \in 1..8 |-> Substring(pubKeyBase, 4 * (k - 1), 4 * k)])

\* mnemonics handed to generateKeyPair: twelve words, and one word
MnemonicInputs ==
  { JoinSpace([k \in 1..WordsPerMnemonic |-> wordList[k]]), wordList[1] }

\* generateKeyPair(mnemonic, index, chain) up to its call of deriveKey(seed, salt)
KeyPairCall ==
  /\ fn = "none"
  /\ \E mnemonic \in MnemonicInputs, index \in 0..MaxIndex, chain \in Chains,
        now \in ClockReadings :
       /\ fn' = "generateKeyPair"
       /\ arg' = [mnemonic |-> mnemonic, index |-> index, chain |-> chain, now |-> now]
       /\ loc' = [path |-> DerivationPath(chain, index),
                  seed |-> mnemonic \o DerivationPath(chain, index),
                  salt |-> WalletSalt(chain, now)]
       /\ kdf' = deriveKeyEnter(mnemonic \o DerivationPath(chain, index),
                                WalletSalt(chain, now), DefaultIterations)
       /\ pc' = "deriveKey"
  /\ UNCHANGED <<calls, form, platform, ret, made>>

\* the ethereum branch, from privateKeyBase to the returned pair
KeyPairEthereum ==
  /\ fn = "generateKeyPair"
  /\ pc = "deriveKey"
  /\ kdf.i >= kdf.iterations
  /\ arg.chain = STR_ethereum
  /\ LET privateKey == STR_0x \o Substring(kdf.result, 0, 64)
         ethAddressBase == secureHash(privateKey)
     IN  ret' = IF ethAddressBase.ok
                THEN Returned([publicKey |-> EthereumAddress(ethAddressBase.val),
                               privateKey |-> privateKey])
                ELSE Threw
  /\ pc' = "done"
  /\ UNCHANGED <<calls, form, platform, fn, arg, loc, kdf, made>>

\* the solana branch, from privateKeyBase to the returned pair
KeyPairSolana ==
  /\ fn = "generateKeyPair"
  /\ pc = "deriveKey"
  /\ kdf.i >= kdf.iterations
  /\ arg.chain # STR_ethereum
  /\ LET extendedPrivateKey == secureHash(kdf.result \o ToDecimal(arg.index))
         privateKey == Substring(extendedPrivateKey.val \o extendedPrivateKey.val, 0, 128)
         pubKeyHash == secureHash(privateKey)
     IN  ret' = IF extendedPrivateKey.ok /\ pubKeyHash.ok
                THEN Returned([publicKey |-> SolanaAddress(Substring(pubKeyHash.val, 0, 32)),
                               privateKey |-> privateKey])
                ELSE Threw
  /\ pc' = "done"
  /\ UNCHANGED <<calls, form, platform, fn, arg, loc, kdf, made>>

\* generatePublicKey(mnemonic, chain): const { publicKey } = await
\* generateKeyPair(mnemonic, 0, chain); return publicKey. Nothing else
\* happens in it, so it is modelled from the point where the generateKeyPair
\* call it made at index 0 has settled.
GeneratePublicKeyReturn ==
  /\ fn = "generateKeyPair"
  /\ pc = "done"
  /\ arg.index = 0
  /\ fn' = "generatePublicKey"
  /\ ret' = IF ret.kind = "returned" THEN Returned(ret.val.publicKey) ELSE Threw
  /\ UNCHANGED <<calls, form, platform, pc, arg, loc, kdf, made>>

\* Array.from(mnemonic).reduce((acc, char) => acc + char.charCodeAt(0), 0)
CharCodeSumStep(acc, char, i) == acc + char

CharCodeSum(mnemonic) == FoldLeft(CharCodeSumStep, mnemonic, 1, Len(mnemonic), 0)

\* the synchronous generatePublicKey of the file's first half: it validates,
\* throws on an invalid mnemonic, and formats a sum of character codes
LegacyGeneratePublicKey ==
  /\ fn = "none"
  /\ \E mnemonic \in MnemonicInputs, chain \in Chains :
       /\ arg' = [mnemonic |-> mnemonic, chain |-> chain, legacy |-> TRUE]
       /\ ret' = IF ~validateMnemonic(mnemonic) THEN Threw
                 ELSE IF chain = STR_ethereum
                 THEN Returned(STR_0x \o PadStart(ToStringRadix(CharCodeSum(mnemonic), 16), 40, 48))
                 ELSE Returned(Substring(ToStringRadix(CharCodeSum(mnemonic), 36), 0, 44))
  /\ fn' = "generatePublicKey"
  /\ pc' = "done"
  /\ UNCHANGED <<calls, form, platform, loc, kdf, made>>

InitKeys == InitCipher

NextKeys ==
  \/ KeyPairCall
  \/ DeriveStep
  \/ KeyPairEthereum
  \/ KeyPairSolana
  \/ GeneratePublicKeyReturn
  \/ LegacyGeneratePublicKey

SpecKeys == InitKeys /\ [][NextKeys]_vars

\* C10: for chain "ethereum", generateKeyPair returns privateKey = "0x" + the
\* first 64 characters of the KDF output, all hex, and publicKey = "0x" + the
\* last 40 characters of hash(privateKey), all hex, whether the digests come
\* from the primary or from the fallback implementation.
C10_EthereumKeyFormat ==
  (fn = "generateKeyPair" /\ pc = "done" /\ arg.chain = STR_ethereum
     /\ platform \in {"primary", "rejects"})
    => /\ ret.kind = "returned"
       /\ kdf.i = DefaultIterations
       /\ Len(ret.val.privateKey) = 66
       /\ SubSeq(ret.val.privateKey, 1, 2) = STR_0x
       /\ SubSeq(ret.val.privateKey, 3, 66) = SubSeq(kdf.result, 1, 64)
       /\ IsHexString(SubSeq(ret.val.privateKey, 3, 66))
       /\ Len(ret.val.publicKey) = 42
       /\ SubSeq(ret.val.publicKey, 1, 2) = STR_0x
       /\ LET digest == SecureHashOn(platform, ret.val.privateKey).val
          IN  SubSeq(ret.val.publicKey, 3, 42) = SubSeq(digest, Len(digest) - 39, Len(digest))
       /\ IsHexString(SubSeq(ret.val.publicKey, 3, 42))

C10_Witness ==
  /\ fn = "generateKeyPair"
  /\ pc = "done"
  /\ arg.chain = STR_ethereum
  /\ arg.index = MaxIndex
  /\ platform = "rejects"
  /\ ret.kind = "returned"
  /\ Len(ret.val.publicKey) = 42
  /\ SubSeq(ret.val.publicKey, 35, 42) # <<48, 48, 48, 48, 48, 48, 48, 48>>

\* C11: for chain "solana", generateKeyPair returns a privateKey of 128
\* characters, hash(KDF output + decimal(index)) written twice, and a
\* publicKey of 32 characters, the first 32 of hash(privateKey).
C11_SolanaKeyFormat ==
  (fn = "generateKeyPair" /\ pc = "done" /\ arg.chain = STR_solana
     /\ platform \in {"primary", "rejects"})
    => LET extended == SecureHashOn(platform, kdf.result \o ToDecimal(arg.index)).val
           digest == SecureHashOn(platform, ret.val.privateKey).val
       IN  /\ ret.kind = "returned"
           /\ kdf.i = DefaultIterations
           /\ Len(ret.val.privateKey) = 128
           /\ ret.val.privateKey = extended \o extended
           /\ Len(ret.val.publicKey) = 32
           /\ ret.val.publicKey = SubSeq(digest, 1, 32)

C11_Witness ==
  /\ fn = "generateKeyPair"
  /\ pc = "done"
  /\ arg.chain = STR_solana
  /\ arg.index = MaxIndex
  /\ platform = "primary"
  /\ ret.kind = "returned"
  /\ Len(ret.val.privateKey) = 128
  /\ SubSeq(ret.val.privateKey, 1, 64) = SubSeq(ret.val.privateKey, 65, 128)

\* C12: the derivation path is m / 44' / 60' (ethereum) or 501' (solana) /
\* index' / 0 / 0, a function of chain and index alone; the KDF is fed the
\* seed mnemonic + path, the wallet salt, and the default 2048 iterations.
C12_DerivationPathAndSeed ==
  fn = "generateKeyPair"
    => LET parts == Split(loc.path, 47)
       IN  /\ Len(parts) = 6
           /\ parts[1] = <<109>>
           /\ parts[2] = <<52, 52, 39>>
           /\ parts[3] = IF arg.chain = STR_ethereum THEN <<54, 48, 39>>
                         ELSE <<53, 48, 49, 39>>
           /\ parts[4] = ToDecimal(arg.index) \o <<39>>
           /\ parts[5] = <<48>>
           /\ parts[6] = <<48>>
           /\ loc.seed = arg.mnemonic \o loc.path
           /\ kdf.seed = loc.seed
           /\ kdf.salt = loc.salt
           /\ kdf.iterations = 2048
           /\ kdf.i = 0 => kdf.result = arg.mnemonic \o loc.path \o loc.salt

C12_Witness ==
  /\ fn = "generateKeyPair"
  /\ pc = "deriveKey"
  /\ kdf.i = 1
  /\ arg.chain = STR_solana
  /\ arg.index = MaxIndex
  /\ Len(loc.path) = 17

\* C15: generateKeyPair validates nothing and never fails: for every
\* mnemonic, valid or not, every index and chain it completes with a key
\* pair; so does generatePublicKey, which is generateKeyPair at index 0
\* (the asynchronous generatePublicKey, that is: the synchronous one of the
\* file's first half is no call of generateKeyPair and is left aside here).
C15_KeyPairNeverFails ==
  /\ (fn = "generateKeyPair" /\ pc = "done")
       => /\ ret.kind = "returned"
          /\ Len(ret.val.privateKey) > 0
          /\ Len(ret.val.publicKey) > 0
  /\ (fn = "generatePublicKey" /\ pc = "done" /\ "index" \in DOMAIN arg)
       => /\ ret.kind = "returned"
          /\ Len(ret.val) > 0

----------------------------------------------------------------------------
(* generateKeyPair invoked twice                                           *)

\* A caller that has its key pair invokes generateKeyPair again, with the
\* same mnemonic (one it has validated, as WalletForm does) and chain, any
\* index, and the clock read 0..MaxElapsed ms later; `made` keeps the
\* arguments and the result of the first invocation.
KeyPairAgain ==
  /\ fn = "generateKeyPair"
  /\ pc = "done"
  /\ ret.kind = "returned"
  /\ ~made.ok
  /\ validateMnemonic(arg.mnemonic)
  /\ \E index \in 0..MaxIndex, elapsed \in 0..MaxElapsed :
       /\ made' = [ok |-> TRUE, arg |-> arg, val |-> ret.val]
       /\ arg' = [arg EXCEPT !.index = index, !.now = @ + elapsed]
       /\ loc' = [path |-> DerivationPath(arg.chain, index),
                  seed |-> arg.mnemonic \o DerivationPath(arg.chain, index),
                  salt |-> WalletSalt(arg.chain, arg.now + elapsed)]
       /\ kdf' = deriveKeyEnter(arg.mnemonic \o DerivationPath(arg.chain, index),
                                WalletSalt(arg.chain, arg.now + elapsed),
                                DefaultIterations)
       /\ pc' = "deriveKey"
       /\ ret' = Pending
  /\ UNCHANGED <<calls, form, platform, fn>>

InitKeyPairs == InitCipher

NextKeyPairs ==
  \/ KeyPairCall
  \/ DeriveStep
  \/ KeyPairEthereum
  \/ KeyPairSolana
  \/ KeyPairAgain

SpecKeyPairs == InitKeyPairs /\ [][NextKeyPairs]_vars

\* the second of two generateKeyPair invocations has returned
SecondKeyPairReturned ==
  /\ fn = "generateKeyPair"
  /\ pc = "done"
  /\ made.ok
  /\ ret.kind = "returned"

\* C13 as stated: two invocations of generateKeyPair with the same
\* (mnemonic, index, chain) return different key pairs.
C13_RepeatedCallDiffers ==
  (SecondKeyPairReturned /\ arg.index = made.arg.index) => ret.val # made.val

\* C13 as amended: two invocations with the same (mnemonic, index, chain)
\* return the same key pair when they read the same clock value, and
\* different key pairs when they read different clock values.
C13_RepeatedCallDiffersWithClock ==
  (SecondKeyPairReturned /\ arg.index = made.arg.index)
    => /\ loc.salt = WalletSalt(arg.chain, arg.now)
       /\ (ret.val = made.val <=> arg.now = made.arg.now)
       /\ (ret.val.privateKey = made.val.privateKey <=> arg.now = made.arg.now)

C13_Witness ==
  /\ SecondKeyPairReturned
  /\ arg.index = made.arg.index
  /\ arg.now # made.arg.now
  /\ ret.val.privateKey # made.val.privateKey
  /\ ret.val.publicKey # made.val.publicKey

\* C14: for a valid mnemonic, one chain and indices i # j, the publicKey
\* generateKeyPair returns for i differs from the one it returns for j,
\* whatever clock values the two invocations read.
C14_IndicesGiveDistinctPublicKeys ==
  (SecondKeyPairReturned /\ arg.index # made.arg.index)
    => /\ validateMnemonic(arg.mnemonic)
       /\ arg.mnemonic = made.arg.mnemonic
       /\ arg.chain = made.arg.chain
       /\ ret.val.publicKey # made.val.publicKey


----------------------------------------------------------------------------
(* Library calls in flight side by side.  Every invocation of an async     *)
(* function has its own frame (its arguments, its locals, the frame of the *)
(* deriveKey call it awaits); the module keeps no variable outside frames. *)
(* A frame moves when one of the promises it awaits settles.               *)

MaxLead == 1  \* awaited steps one call in flight may be ahead of the other

Frame(name, a) ==
  [fn |-> name, arg |-> a, pc |-> "called", loc |-> <<>>, kdf |-> NoKdf,
   ret |-> Pending, awaits |-> 0]

\* a rejected call: nothing catches inside the library
Reject(c) == [c EXCEPT !.pc = "done", !.ret = Threw, !.awaits = @ + 1]

\* the frame of the deriveKey call a frame awaits, were deriveKey to keep
\* its result and counter in one place shared by all calls
KdfOfLatest(cs, k) == cs[Len(cs)].kdf

\* let result / let i of deriveKey: locals of the invocation
KdfOf(cs, k) == cs[k].kdf

\* encryptPrivateKey up to its first await; Date.now() is read here
EncryptEnter(privateKey, password, now) ==
  [Frame("encryptPrivateKey",
         [privateKey |-> privateKey, password |-> password, now |-> now])
     EXCEPT !.pc = "salt"]

\* decryptPrivateKey up to its first await, the one on deriveKey
DecryptEnter(encryptedKey, password) ==
  LET parts == Split(encryptedKey, 46)
      encrypted == ElementAt(parts, 1)
      salt == ElementAt(parts, 2)
  IN  [Frame("decryptPrivateKey",
             [encryptedKey |-> encryptedKey, password |-> password])
         EXCEPT !.pc = "deriveKey",
                !.loc = [encrypted |-> encrypted, salt |-> salt],
                !.kdf = deriveKeyEnter(password, salt, DecryptIterations)]

\* generateKeyPair up to its first await; Date.now() is read here
KeyPairEnter(mnemonic, index, chain, now) ==
  [Frame("generateKeyPair",
         [mnemonic |-> mnemonic, index |-> index, chain |-> chain, now |-> now])
     EXCEPT !.pc = "deriveKey",
            !.loc = [path |-> DerivationPath(chain, index),
                     seed |-> mnemonic \o DerivationPath(chain, index),
                     salt |-> WalletSalt(chain, now)],
            !.kdf = deriveKeyEnter(mnemonic \o DerivationPath(chain, index),
                                   WalletSalt(chain, now), DefaultIterations)]

\* await deriveKey(...) has settled: the caller runs on to its next await
\* or to its return
AfterDeriveKey(c, key) ==
  CASE c.fn = "encryptPrivateKey" ->
         LET encoded == btoa(XorCipher(c.arg.privateKey, key))
         IN  IF encoded.ok
             THEN [c EXCEPT !.pc = "done",
                            !.ret = Returned(encoded.val \o <<46>> \o StoredSalt(c.loc.salt))]
             ELSE [c EXCEPT !.pc = "done", !.ret = Threw]
    [] c.fn = "decryptPrivateKey" ->
         LET encryptedData == atob(c.loc.encrypted)
         IN  IF encryptedData.ok
             THEN [c EXCEPT !.pc = "done",
                            !.ret = Returned(XorCipher(encryptedData.val, key))]
             ELSE [c EXCEPT !.pc = "done", !.ret = Threw]
    [] c.fn = "generateKeyPair" /\ c.arg.chain = STR_ethereum ->
         [c EXCEPT !.pc = "ethAddressBase",
                   !.loc = [privateKeyBase |-> key,
                            privateKey |-> STR_0x \o Substring(key, 0, 64)]]
    [] OTHER ->
         [c EXCEPT !.pc = "extendedPrivateKey", !.loc = [privateKeyBase |-> key]]

\* The promise a frame awaits settles; own is the deriveKey frame it awaits.
Advance(c, own) ==
  LET input ==
        CASE c.pc = "salt" -> ToDecimal(c.arg.now)
          [] c.pc = "deriveKey" -> DeriveInput(own.result, own.i)
          [] c.pc = "ethAddressBase" -> c.loc.privateKey
          [] c.pc = "extendedPrivateKey" ->
               c.loc.privateKeyBase \o ToDecimal(c.arg.index)
          [] OTHER -> c.loc.privateKey
      h == secureHash(input)
      next ==
        CASE c.pc = "salt" ->
               [c EXCEPT !.pc = "deriveKey", !.loc = [salt |-> h.val],
                         !.kdf = deriveKeyEnter(c.arg.password, h.val, EncryptIterations)]
          [] c.pc = "deriveKey" ->
               [c EXCEPT !.kdf = [own EXCEPT !.result = h.val, !.i = @ + 1]]
          [] c.pc = "ethAddressBase" ->
               [c EXCEPT !.pc = "done",
                         !.ret = Returned([publicKey |-> EthereumAddress(h.val),
                                           privateKey |-> c.loc.privateKey])]
          [] c.pc = "extendedPrivateKey" ->
               [c EXCEPT !.pc = "pubKeyHash",
                         !.loc = [privateKey |-> Substring(h.val \o h.val, 0, 128)]]
          [] OTHER ->
               [c EXCEPT !.pc = "done",
                         !.ret = Returned([publicKey |-> SolanaAddress(Substring(h.val, 0, 32)),
                                           privateKey |-> c.loc.privateKey])]
  IN  IF c.pc = "deriveKey" /\ own.i >= own.iterations
      THEN [AfterDeriveKey(c, own.result) EXCEPT !.awaits = @ + 1]
      ELSE IF h.ok THEN [next EXCEPT !.awaits = @ + 1] ELSE Reject(c)

InFlight(c) == c.pc # "done"

RawKeyInput == CHOOSE k \in PrivateKeyInputs : Len(k) = 66
ShortKeyInput == CHOOSE k \in PrivateKeyInputs : Len(k) = 2 /\ k[2] = 233
StoredEnvelopeInput == CHOOSE e \in EnvelopeInputs : Len(e) = 21 /\ e[3] = 61
PasswordInput == CHOOSE p \in Passwords : Len(p) = 2
PhraseInput == CHOOSE m \in MnemonicInputs : validateMnemonic(m)

\* the call that is in flight first
FirstCalls ==
  { EncryptEnter(RawKeyInput, PasswordInput, now) : now \in ClockReadings }
    \cup { KeyPairEnter(PhraseInput, 0, STR_ethereum, now) : now \in ClockReadings }

\* the calls started next to it, elapsed milliseconds after it read the clock
SecondCalls(now) ==
  { EncryptEnter(ShortKeyInput, PasswordInput, now + elapsed) : elapsed \in 0..MaxElapsed }
    \cup { DecryptEnter(StoredEnvelopeInput, PasswordInput),
           KeyPairEnter(PhraseInput, MaxIndex, STR_solana, now) }

CallFirst ==
  /\ calls = <<>>
  /\ \E c \in FirstCalls : calls' = <<c>>
  /\ UNCHANGED <<form, platform, fn, pc, arg, loc, kdf, ret, made>>

\* wallets.map(async ...) starts its calls one after another in one run;
\* any other caller may start while the first call is awaiting
CallSecond ==
  /\ Len(calls) = 1
  /\ InFlight(calls[1])
  /\ \E c \in SecondCalls(calls[1].arg.now) : calls' = Append(calls, c)
  /\ UNCHANGED <<form, platform, fn, pc, arg, loc, kdf, ret, made>>

\* one awaited promise settles, of either call
CallAdvance ==
  /\ \E k \in 1..Len(calls) :
       /\ InFlight(calls[k])
       /\ Len(calls) = 1 => calls[k].awaits < MaxLead
       /\ \A j \in 1..Len(calls) :
            j # k /\ InFlight(calls[j]) => calls[k].awaits - calls[j].awaits < MaxLead
       /\ calls' = [calls EXCEPT ![k] = Advance(calls[k], KdfOf(calls, k))]
  /\ UNCHANGED <<form, platform, fn, pc, arg, loc, kdf, ret, made>>

InitConcurrent == InitCipher

NextConcurrent == CallFirst \/ CallSecond \/ CallAdvance

SpecConcurrent == InitConcurrent /\ [][NextConcurrent]_vars

\* the salt part an envelope ends in
SaltPart(envelope) ==
  Substring(envelope, Len(envelope) - SaltPrefixLength, Len(envelope))

HasSalt(c) == c.fn = "encryptPrivateKey" /\ c.pc # "salt" /\ c.ret.kind # "threw"

\* C16: any two invocations of encryptPrivateKey, those started together
\* included, use different salts, and the envelopes they return end in
\* different salt parts.
C16_FreshSaltPerEncryption ==
  \A j \in 1..Len(calls), k \in 1..Len(calls) :
    j < k /\ HasSalt(calls[j]) /\ HasSalt(calls[k]) =>
      /\ calls[j].loc.salt # calls[k].loc.salt
      /\ calls[j].ret.kind = "returned" /\ calls[k].ret.kind = "returned" =>
           SaltPart(calls[j].ret.val) # SaltPart(calls[k].ret.val)

\* rounds from..to-1 of the deriveKey loop, run without interruption
RECURSIVE RoundsAlone(_, _, _)
RoundsAlone(result, from, to) ==
  IF to <= from THEN result
  ELSE IF to = from + 1 THEN secureHash(result \o ToDecimal(from)).val
  ELSE LET mid == (from + to) \div 2
           left == RoundsAlone(result, from, mid)
       IN  IF Forced(left) THEN RoundsAlone(left, mid, to) ELSE <<>>

\* what a call with the arguments and the clock reading of frame c returns
\* when nothing else runs
Alone(c) ==
  IF platform = "absent" THEN Threw
  ELSE CASE c.fn = "encryptPrivateKey" ->
              LET salt == secureHash(ToDecimal(c.arg.now)).val
                  key == RoundsAlone(c.arg.password \o salt, 0, 1000)
                  encoded == btoa(XorCipher(c.arg.privateKey, key))
              IN  IF encoded.ok
                  THEN Returned(encoded.val \o <<46>> \o Substring(salt, 0, 16))
                  ELSE Threw
         [] c.fn = "decryptPrivateKey" ->
              LET parts == Split(c.arg.encryptedKey, 46)
                  key == RoundsAlone(c.arg.password \o JsToString(ElementAt(parts, 2)),
                                     0, 1000)
                  data == atob(ElementAt(parts, 1))
              IN  IF data.ok THEN Returned(XorCipher(data.val, key)) ELSE Threw
         [] OTHER ->
              LET path == DerivationPath(c.arg.chain, c.arg.index)
                  base == RoundsAlone(c.arg.mnemonic \o path
                                        \o WalletSalt(c.arg.chain, c.arg.now), 0, 2048)
                  ethKey == STR_0x \o Substring(base, 0, 64)
                  ext == secureHash(base \o ToDecimal(c.arg.index)).val
                  solKey == Substring(ext \o ext, 0, 128)
              IN  IF c.arg.chain = STR_ethereum
                  THEN Returned([publicKey |-> EthereumAddress(secureHash(ethKey).val),
                                 privateKey |-> ethKey])
                  ELSE Returned([publicKey |->
                                   SolanaAddress(Substring(secureHash(solKey).val, 0, 32)),
                                 privateKey |-> solKey])

\* the seed of the key derivation a call starts
OwnSeed(c) ==
  IF c.fn = "generateKeyPair"
  THEN c.arg.mnemonic \o DerivationPath(c.arg.chain, c.arg.index)
  ELSE c.arg.password

BothSettled == Len(calls) = 2 /\ ~InFlight(calls[1]) /\ ~InFlight(calls[2])

\* C17: calls in flight at once, interleaving at their awaits, each return
\* what they return when run alone with the same arguments and clock
\* reading, and the key derivation a call awaits stays the one it started.
C17_NonInterference ==
  /\ \A k \in 1..Len(calls) :
       calls[k].pc = "deriveKey" => calls[k].kdf.seed = OwnSeed(calls[k])
  /\ BothSettled => \A k \in 1..2 : calls[k].ret = Alone(calls[k])

\* two calls of different functions have both returned after running side
\* by side
C17_Witness ==
  /\ BothSettled
  /\ calls[1].ret.kind = "returned" /\ calls[2].ret.kind = "returned"
  /\ calls[1].fn # calls[2].fn
  /\ calls[1].awaits > MaxLead /\ calls[2].awaits > MaxLead

----------------------------------------------------------------------------
(* The WalletForm component.  What the library returns is kept as a term   *)
(* that says how it was made: the component stores, copies and displays    *)
(* keys and envelopes and never looks inside one.                          *)

MaxWallets == 2  \* wallets the list is let grow to
MaxTime == 2     \* the last reading of Date.now() while the form is open

DEFAULT_ENCRYPTION_PASSWORD == "default_password"

ChainProp == STR_ethereum

\* { publicKey, privateKey } of generateKeyPair(mnemonic, index, chain)
KeyPairTerm(mnemonic, index) ==
  [publicKey |-> [kind |-> "publicKey", mnemonic |-> mnemonic, index |-> index],
   privateKey |-> [kind |-> "privateKey", mnemonic |-> mnemonic, index |-> index]]

\* the string encryptPrivateKey(privateKey, password) resolves to
EnvelopeTerm(privateKey, password) ==
  [kind |-> "envelope", of |-> privateKey, password |-> password]

\* a library call rejects where secureHash throws
LibraryRejects == platform = "absent"

\* a callback that encrypts whatever it is given
EncryptedWalletAlways(wallet, encryptionPassword) ==
  [wallet EXCEPT !.privateKey = EnvelopeTerm(wallet.privateKey, encryptionPassword),
                 !.encrypted = TRUE]

\* the callback of wallets.map in encryptWalletKeys
EncryptedWallet(wallet, encryptionPassword) ==
  IF ~wallet.encrypted
  THEN [wallet EXCEPT !.privateKey = EnvelopeTerm(wallet.privateKey, encryptionPassword),
                      !.encrypted = TRUE]
  ELSE wallet

OtherPhrase == JoinSpace([k \in 1..WordsPerMnemonic |-> wordList[k + 1]])
OneWord == wordList[1]

\* what handleMnemonicChange is typed, what generateMnemonic returns
TypedMnemonics == {OtherPhrase, OneWord}
GeneratedMnemonics == {PhraseInput}

\* what an earlier session left under the two storage keys
StoredWallet(encrypted) ==
  [id |-> 0, publicKey |-> KeyPairTerm(PhraseInput, 0).publicKey,
   privateKey |-> IF encrypted
                  THEN EnvelopeTerm(KeyPairTerm(PhraseInput, 0).privateKey,
                                    DEFAULT_ENCRYPTION_PASSWORD)
                  ELSE KeyPairTerm(PhraseInput, 0).privateKey,
   encrypted |-> encrypted]

Stores ==
  { [mnemonic |-> <<>>, wallets |-> <<>>],
    [mnemonic |-> OneWord, wallets |-> <<>>],
    [mnemonic |-> PhraseInput, wallets |-> <<StoredWallet(FALSE)>>],
    [mnemonic |-> PhraseInput, wallets |-> <<StoredWallet(TRUE)>>] }

\* the save effect, run after a render that changed mnemonic or wallets
SaveEffect(f) ==
  [f EXCEPT !.store = [mnemonic |-> IF f.mnemonic # <<>> THEN f.mnemonic ELSE @.mnemonic,
                       wallets |-> IF Len(f.wallets) > 0 THEN f.wallets ELSE @.wallets]]

FormFrame == UNCHANGED <<calls, platform, fn, pc, arg, loc, kdf, ret, made>>

\* the load effect at mount
LoadEffect ==
  /\ ~form.mounted
  /\ form' = SaveEffect([form EXCEPT
                !.mounted = TRUE,
                !.mnemonic = IF form.store.mnemonic # <<>> THEN form.store.mnemonic ELSE @,
                !.wallets = IF form.store.wallets # <<>> THEN form.store.wallets ELSE @])
  /\ FormFrame

\* Date.now() moves on
Tick ==
  /\ form.mounted
  /\ form.now < MaxTime
  /\ form' = [form EXCEPT !.now = @ + 1]
  /\ FormFrame

handleGenerateMnemonic ==
  /\ form.mounted
  /\ \E newMnemonic \in GeneratedMnemonics :
       form' = SaveEffect([form EXCEPT !.mnemonic = newMnemonic, !.wallets = <<>>])
  /\ FormFrame

handleMnemonicChange ==
  /\ form.mounted
  /\ \E input \in TypedMnemonics :
       IF validateMnemonic(input)
       THEN form' = SaveEffect([form EXCEPT !.mnemonic = input, !.wallets = <<>>])
       ELSE form' = form
  /\ FormFrame

\* the add button, up to await generateKeyPair(mnemonic, wallets.length, chain)
\* a button that is never disabled
NeverDisabled(f) == FALSE

\* disabled={loading || !mnemonic} of the add button
AddDisabled(f) == f.loading \/ f.mnemonic = <<>>

\* disabled={loading || wallets.every(w => w.encrypted)} of the encrypt button
EncryptDisabled(f) == f.loading \/ \A k \in 1..Len(f.wallets) : f.wallets[k].encrypted

handleAddWallet ==
  /\ form.mounted
  /\ ~AddDisabled(form)
  /\ form.mnemonic # <<>>
  /\ Len(form.wallets) + Len(form.runs) < MaxWallets
  /\ LET valid == validateMnemonic(form.mnemonic)
     IN  IF valid
         THEN form' = [form EXCEPT
                 !.loading = TRUE,
                 !.runs = Append(@, [handler |-> "handleAddWallet",
                                     awaiting |-> "generateKeyPair",
                                     mnemonic |-> form.mnemonic,
                                     index |-> Len(form.wallets),
                                     securityLevel |-> form.securityLevel,
                                     encryptionPassword |-> form.encryptionPassword,
                                     wallets |-> form.wallets,
                                     keys |-> <<>>])]
         ELSE form' = [form EXCEPT !.refused = TRUE]
  /\ FormFrame

Without(s, k) == [j \in 1..(Len(s) - 1) |-> IF j < k THEN s[j] ELSE s[j + 1]]

\* handleAddWallet from the point where its await settles
AddWalletResume ==
  /\ \E k \in 1..Len(form.runs) :
       LET run == form.runs[k]
           shouldEncrypt == run.securityLevel >= 80
           keys == IF run.awaiting = "generateKeyPair"
                   THEN KeyPairTerm(run.mnemonic, run.index)
                   ELSE run.keys
           finalPrivateKey == IF shouldEncrypt
                              THEN EnvelopeTerm(keys.privateKey, run.encryptionPassword)
                              ELSE keys.privateKey
           newWallet == [id |-> form.now, publicKey |-> keys.publicKey,
                         privateKey |-> finalPrivateKey, encrypted |-> shouldEncrypt]
       IN  /\ run.handler = "handleAddWallet"
           /\ IF LibraryRejects
              THEN form' = [form EXCEPT !.runs = Without(@, k), !.loading = FALSE]
              ELSE IF run.awaiting = "generateKeyPair" /\ shouldEncrypt
              THEN form' = [form EXCEPT !.runs[k].awaiting = "encryptPrivateKey",
                                        !.runs[k].keys = keys]
              ELSE form' = SaveEffect([form EXCEPT
                      !.runs = Without(@, k),
                      !.wallets = Append(@, newWallet),
                      !.securityLevel = IF shouldEncrypt THEN Max(run.securityLevel, 90) ELSE @,
                      !.loading = FALSE])
  /\ FormFrame

\* the encrypt button, up to await Promise.all(wallets.map(...))
encryptWalletKeys ==
  /\ form.mounted
  /\ ~EncryptDisabled(form)
  /\ form' = [form EXCEPT
        !.loading = TRUE,
        !.runs = Append(@, [handler |-> "encryptWalletKeys",
                            awaiting |-> "Promise.all",
                            mnemonic |-> form.mnemonic,
                            index |-> 0,
                            securityLevel |-> form.securityLevel,
                            encryptionPassword |-> form.encryptionPassword,
                            wallets |-> form.wallets,
                            keys |-> <<>>])]
  /\ FormFrame

\* encryptWalletKeys from the point where Promise.all settles
EncryptWalletKeysResume ==
  /\ \E k \in 1..Len(form.runs) :
       LET run == form.runs[k]
           updatedWallets == [j \in 1..Len(run.wallets) |->
                                EncryptedWallet(run.wallets[j], run.encryptionPassword)]
       IN  /\ run.handler = "encryptWalletKeys"
           /\ IF LibraryRejects
              THEN form' = [form EXCEPT !.runs = Without(@, k), !.loading = FALSE]
              ELSE form' = SaveEffect([form EXCEPT
                      !.runs = Without(@, k),
                      !.wallets = updatedWallets,
                      !.securityLevel = 95,
                      !.store = [@ EXCEPT !.wallets = updatedWallets],
                      !.loading = FALSE])
  /\ FormFrame

handleClearWallets ==
  /\ form.mounted
  /\ Len(form.wallets) > 0
  /\ form' = SaveEffect([form EXCEPT
        !.wallets = <<>>, !.mnemonic = <<>>,
        !.store = [mnemonic |-> <<>>, wallets |-> <<>>],
        !.securityLevel = 50])
  /\ FormFrame

handleRemoveWallet ==
  /\ form.mounted
  /\ \E k \in 1..Len(form.wallets) :
       LET id == form.wallets[k].id
           Kept(wallet) == wallet.id # id
           updatedWallets == SelectSeq(form.wallets, Kept)
       IN  form' = SaveEffect([form EXCEPT
               !.wallets = updatedWallets,
               !.store = [@ EXCEPT !.wallets = updatedWallets],
               !.removed = @ \cup {id}])
  /\ FormFrame

InitForm ==
  /\ platform \in {"primary", "absent"}
  /\ fn = "none"
  /\ pc = "idle"
  /\ arg = <<>>
  /\ loc = <<>>
  /\ kdf = NoKdf
  /\ ret = Pending
  /\ made = NoEnvelope
  /\ calls = <<>>
  /\ \E store \in Stores :
       form = [mounted |-> FALSE, mnemonic |-> <<>>, wallets |-> <<>>,
               loading |-> FALSE, encryptionPassword |-> DEFAULT_ENCRYPTION_PASSWORD,
               securityLevel |-> 70, store |-> store, now |-> 1, runs |-> <<>>,
               refused |-> FALSE, removed |-> {}, decrypted |-> <<>>]

NextForm ==
  \/ LoadEffect
  \/ Tick
  \/ handleGenerateMnemonic
  \/ handleMnemonicChange
  \/ handleAddWallet
  \/ AddWalletResume
  \/ encryptWalletKeys
  \/ EncryptWalletKeysResume
  \/ handleClearWallets
  \/ handleRemoveWallet

SpecForm == InitForm /\ [][NextForm]_vars

IsRawKey(key) == key.kind = "privateKey"
IsEnvelopeOfRawKey(key) == key.kind = "envelope" /\ key.of.kind = "privateKey"

\* C18: after any sequence of WalletForm operations every wallet in the list
\* has encrypted = true exactly when its privateKey is an envelope made by
\* one encryptPrivateKey call on a raw key, and encrypted = false exactly
\* when its privateKey is the raw key generateKeyPair returned.
C18_WalletRecordInvariant ==
  \A k \in 1..Len(form.wallets) :
    /\ form.wallets[k].encrypted <=> IsEnvelopeOfRawKey(form.wallets[k].privateKey)
    /\ ~form.wallets[k].encrypted <=> IsRawKey(form.wallets[k].privateKey)

\* an encrypt-all run has committed and a wallet was added, encrypted, after it
C18_Witness ==
  /\ form.securityLevel = 95
  /\ Len(form.wallets) = 2
  /\ form.wallets[1].encrypted /\ form.wallets[2].encrypted
  /\ form.wallets[2].id > 0

\* C19: generateKeyPair is only invoked with a mnemonic that validateMnemonic
\* accepted in that handler run, also for a mnemonic loaded from the store;
\* a handleAddWallet run whose validation fails adds no wallet and starts no
\* call.
C19_CallersValidateFirst ==
  /\ [](\A k \in 1..Len(form.runs) :
          form.runs[k].handler = "handleAddWallet"
            => WordCount(form.runs[k].mnemonic) \in {12, 24})
  /\ [][~form.refused /\ form'.refused
          => form'.wallets = form.wallets /\ form'.runs = form.runs]_vars

\* handleAddWallet has refused the stored one-word mnemonic, and after a new
\* mnemonic was generated a generateKeyPair call is in flight
C19_Witness ==
  /\ form.refused
  /\ form.store.mnemonic # OneWord
  /\ \E k \in 1..Len(form.runs) : form.runs[k].awaiting = "generateKeyPair"

\* C20: once handleRemoveWallet(id) has run, the wallet list never again
\* holds a wallet with that id, also when an encryptWalletKeys or
\* handleAddWallet run was suspended during the removal and commits later.
C20_RemovedStaysRemoved ==
  \A k \in 1..Len(form.wallets) : form.wallets[k].id \notin form.removed

\* C21: after any interleaving of handleAddWallet (suspended while
\* deriving), handleGenerateMnemonic and an accepted handleMnemonicChange,
\* every wallet in the list was derived from the current mnemonic.
C21_WalletsOfActiveMnemonic ==
  form.mounted =>
    \A k \in 1..Len(form.wallets) :
      form.wallets[k].publicKey.mnemonic = form.mnemonic

\* C22: whenever no handler is running and the save effect is done, the
\* stored wallet list equals the list in memory and is absent exactly when
\* that list is empty.
C22_StoreMirrorsMemory ==
  form.mounted /\ form.runs = <<>> => form.store.wallets = form.wallets

\* WalletForm under the mnemonic it was mounted with: wallets are added and
\* removed, nothing else is touched
NextFormIndices ==
  \/ LoadEffect
  \/ Tick
  \/ handleAddWallet
  \/ AddWalletResume
  \/ handleRemoveWallet

SpecFormIndices == InitForm /\ [][NextFormIndices]_vars

\* C23: the account indices of the wallets in the list that were derived
\* from one mnemonic are pairwise distinct.
C23_IndicesNeverReused ==
  \A j \in 1..Len(form.wallets), k \in 1..Len(form.wallets) :
    /\ j < k
    /\ form.wallets[j].publicKey.mnemonic = form.wallets[k].publicKey.mnemonic
    => form.wallets[j].publicKey.index # form.wallets[k].publicKey.index

\* what the password input is changed to
FormPasswords == {DEFAULT_ENCRYPTION_PASSWORD, "hunter2"}

\* onChange of the password input
SetEncryptionPassword ==
  /\ form.mounted
  /\ \E password \in FormPasswords \ {form.encryptionPassword} :
       form' = [form EXCEPT !.encryptionPassword = password]
  /\ FormFrame

\* the eye and the copy button of an encrypted wallet: the call
\* decryptPrivateKey(wallet.privateKey, encryptionPassword)
decryptPrivateKeyForDisplay ==
  /\ form.mounted
  /\ \E k \in 1..Len(form.wallets) :
       /\ form.wallets[k].encrypted
       /\ form' = [form EXCEPT
             !.decrypted = [encryptedKey |-> form.wallets[k].privateKey,
                            password |-> form.encryptionPassword]]
  /\ FormFrame

\* WalletForm with its password input: password edits, add wallet, encrypt
\* all, and the display of private keys
NextFormPasswords ==
  \/ LoadEffect
  \/ Tick
  \/ SetEncryptionPassword
  \/ handleGenerateMnemonic
  \/ handleAddWallet
  \/ AddWalletResume
  \/ encryptWalletKeys
  \/ EncryptWalletKeysResume
  \/ decryptPrivateKeyForDisplay

SpecFormPasswords == InitForm /\ [][NextFormPasswords]_vars

\* C24: whenever WalletForm decrypts a wallet's private key, the password it
\* passes to decryptPrivateKey is the one encryptPrivateKey was given when
\* the wallet's envelope was made.
C24_DecryptWithEncryptionPassword ==
  form.decrypted # <<>> =>
    form.decrypted.password = form.decrypted.encryptedKey.password

\* WalletForm where every awaited library call settles in the end
SpecFormLive ==
  /\ InitForm
  /\ [][NextForm]_vars
  /\ WF_vars(AddWalletResume)
  /\ WF_vars(EncryptWalletKeysResume)

\* C25: every handleAddWallet and encryptWalletKeys run that sets loading
\* sets it back to false, whether the library call succeeds or rejects, and
\* while loading is true no further add-wallet or encrypt-all run starts.
C25_LoadingReleased ==
  /\ form.loading ~> ~form.loading
  /\ [][form.loading => Len(form'.runs) <= Len(form.runs)]_vars

\* an add-wallet run and an encrypt-all run have both come and gone
C25_Witness ==
  /\ ~form.loading /\ form.runs = <<>>
  /\ form.securityLevel = 95
  /\ \E k \in 1..Len(form.wallets) : form.wallets[k].id > 0
====
